---- MODULE Spec2Model ----
(***************************************************************************)
(* Model of openhands/runtime/impl/docker/docker_runtime.py: the container *)
(* lifecycle and connection state machine of DockerRuntime.                *)
(*                                                                         *)
(* Spec      one DockerRuntime instance driving connect / pause / resume / *)
(*           close against a container engine that other processes also    *)
(*           use (they create, remove and stop containers).                *)
(* SpecPorts _init_container's container specification followed by         *)
(*           _attach_to_container's reconstruction of the port assignment. *)
(***************************************************************************)
EXTENDS Integers, Sequences, FiniteSets, TLC

(***************************************************************************)
(* Bounds of the model.                                                    *)
(***************************************************************************)
\* Steps other users of the engine take during one run of the model.
MaxEnvSteps == 2

(***************************************************************************)
(* Strings.  A string is a sequence of tokens; a name is the prefix        *)
(* followed by the characters of the session identifier.                   *)
(***************************************************************************)
CONTAINER_NAME_PREFIX == <<"openhands-runtime-">>

\* str.startswith
StartsWith(s, p) == /\ Len(p) <= Len(s)
                    /\ SubSeq(s, 1, Len(p)) = p

\* Session identifiers in use on the engine.
Sids == { <<"a">>, <<"a", "b">> }

\* self.container_name = CONTAINER_NAME_PREFIX + sid
ContainerName(sid) == CONTAINER_NAME_PREFIX \o sid

\* A container of another application on the same engine.
ForeignName == <<"postgres">>

Names == { ContainerName(s) : s \in Sids } \cup { ForeignName }

\* self.container = None
NoContainer == <<>>

(***************************************************************************)
(* Exceptions.  A raised exception is a sequence: its class name, followed *)
(* for a tenacity.RetryError by the exception of its last attempt and for  *)
(* an engine APIError by its HTTP status.                                  *)
(***************************************************************************)
NoException == <<>>

\* The errors of openhands.core.exceptions the runtime raises: errors of the
\* application, distinct from the engine's and the HTTP client's classes.
AgentRuntimeErrorBases(cls) ==
    {cls, "AgentRuntimeUnavailableError", "AgentRuntimeError", "Exception"}

\* The classes an exception class is an instance of (itself and its bases).
ExcBases(cls) ==
    CASE cls \in {"AgentRuntimeNotFoundError", "AgentRuntimeDisconnectedError"}
                                           -> AgentRuntimeErrorBases(cls)
      [] cls = "httpx.ConnectError"        -> {cls, "httpx.NetworkError", "Exception"}
      [] cls = "docker.errors.NotFound"    -> {cls, "docker.errors.APIError", "Exception"}
      [] OTHER                             -> {cls, "Exception"}

IsInstance(cls, classes) == ExcBases(cls) \cap classes # {}

\* The classes _is_retryable_wait_until_alive_error accepts.
RetryableClasses ==
    { "ConnectionError", "httpx.NetworkError", "httpx.RemoteProtocolError",
      "httpx.HTTPStatusError", "httpx.ConnectTimeout", "docker.errors.NotFound" }

\* Mutant: every exception is retried.
RetriesEverything(exception) == TRUE

RECURSIVE _is_retryable_wait_until_alive_error(_)
_is_retryable_wait_until_alive_error(exception) ==
    IF Head(exception) = "tenacity.RetryError"
    THEN _is_retryable_wait_until_alive_error(Tail(exception))
    ELSE IsInstance(Head(exception), RetryableClasses)

(***************************************************************************)
(* tenacity policy of _wait_until_alive.                                   *)
(***************************************************************************)
\* stop_after_delay(180): seconds since the first attempt started.
StopDelay == 180
WaitMin == 4
WaitMax == 10

Pow2(n) == IF n <= 0 THEN 1
           ELSE IF n = 1 THEN 2
           ELSE IF n = 2 THEN 4
           ELSE IF n = 3 THEN 8
           ELSE 16

Min(a, b) == IF a <= b THEN a ELSE b
Max(a, b) == IF a >= b THEN a ELSE b

\* wait_exponential(multiplier=1, min=4, max=10) before attempt n + 1.
WaitExponential(attempt_number) ==
    Max(WaitMin, Min(Pow2(attempt_number - 1), WaitMax))

\* stop_after_delay(180) | stop_if_should_exit()
StopRetrying(seconds_since_start, exit_signalled) ==
    seconds_since_start >= StopDelay \/ exit_signalled

\* Seconds one attempt of _wait_until_alive can take (engine lookup plus the
\* HTTP probe with its timeout).
AttemptSeconds == {50, 86}

\* What check_if_alive can raise.
ProbeErrors ==
    { <<"httpx.ConnectError">>,
      <<"tenacity.RetryError", "httpx.ConnectTimeout">>, <<"ValueError">> }

(***************************************************************************)
(* The engine.                                                             *)
(***************************************************************************)
Statuses == {"absent", "running", "exited"}

\* stop_all_containers(prefix): every container whose name starts with the
\* prefix is removed; errors of single containers are swallowed.
StopAllContainers(prefix, cs) ==
    [n \in Names |-> IF cs[n] # "absent" /\ StartsWith(n, prefix)
                     THEN "absent" ELSE cs[n]]

Present(cs) == { n \in Names : cs[n] # "absent" }

(***************************************************************************)
(* State.                                                                  *)
(***************************************************************************)
VARIABLES
    cfg,                      \* config.sandbox, sid and attach_to_existing
    containers,               \* the engine: name -> status
    envSteps,                 \* steps taken by other users of the engine
    should_exit,              \* the cancellation signal of stop_if_should_exit
    container,                \* self.container: a name, or NoContainer
    runtime_container_image,  \* self.runtime_container_image: "set" or "none"
    runtime_initialized,      \* self._runtime_initialized
    op,                       \* the operation running, or the last one run
    pc,                       \* its position; "idle" when none is running
    retry_count,              \* connect()'s retry_count
    attempt_number,           \* tenacity's attempt number in _wait_until_alive
    elapsed,                  \* tenacity's seconds since the first attempt
    outcome,                  \* of the last operation: none, returned, raised
    raised,                   \* the exception it raised
    h,                        \* what the operation has done so far
    justClosed                \* close() was the last thing to touch the engine

vars == << cfg, containers, envSteps, should_exit, container,
           runtime_container_image, runtime_initialized, op, pc, retry_count,
           attempt_number, elapsed, outcome, raised, h, justClosed >>

Configs ==
    [ sid                : { <<"a">> },
      attach_to_existing : BOOLEAN,
      keep_runtime_alive : BOOLEAN,
      rm_all_containers  : BOOLEAN,
      use_host_network   : BOOLEAN,
      \* runtime_container_image / base_container_image: which one is set
      image              : {"runtime", "base", "none"} ]

container_name == ContainerName(cfg.sid)

\* Nothing done yet: the record every operation starts from.
Fresh ==
    [ attach       |-> 0,          \* _attach_to_container calls
      attached     |-> FALSE,      \* one of them succeeded
      lastAttach   |-> NoException,\* what the last one raised
      sleeps       |-> <<>>,       \* asyncio.sleep durations
      build        |-> 0,          \* build_runtime_image calls
      provision    |-> 0,          \* _init_container calls (with recursion)
      create       |-> 0,          \* containers.run calls issued
      created      |-> FALSE,      \* one of them returned a container
      recoveries   |-> 0,          \* conflicts answered by remove-and-retry
      detect       |-> "none",     \* outcome of the engine variant probe
      network_mode |-> "none",
      extra_hosts  |-> "unbound",
      started      |-> FALSE,      \* resume() called container.start()
      lookups      |-> 0,          \* attempts of _wait_until_alive
      probed       |-> FALSE,      \* the last attempt reached check_if_alive
      notFound     |-> 0,          \* of which the engine said not found
      probes       |-> 0,          \* check_if_alive calls
      probeOk      |-> FALSE,      \* one of them succeeded
      earlyProbe   |-> FALSE,      \* a probe was issued without a handle
      exhausted    |-> FALSE,      \* the liveness budget stopped the loop
      setup        |-> FALSE,      \* setup_initial_env was called
      earlySetup   |-> FALSE,      \* ... before a probe had succeeded
      closes       |-> 0,          \* close() ran (also from _init_container)
      again        |-> FALSE,      \* close() directly after a close()
      removed      |-> {} ]        \* containers this operation removed

Init ==
    /\ cfg \in Configs
    /\ containers \in { cs \in [Names -> Statuses] :
                          /\ cs[ForeignName] = "running"
                          /\ \A n \in Names \ {ContainerName(cfg.sid)} :
                               cs[n] # "exited" }
    /\ envSteps = 0
    /\ should_exit = FALSE
    /\ container = NoContainer
    /\ runtime_container_image = (IF cfg.image = "runtime" THEN "set" ELSE "none")
    /\ runtime_initialized = FALSE
    /\ op = "none"
    /\ pc = "idle"
    /\ retry_count = 0
    /\ attempt_number = 0
    /\ elapsed = 0
    /\ outcome = "none"
    /\ raised = NoException
    /\ h = Fresh
    /\ justClosed = FALSE

\* An operation starts: only one runs at a time on an instance.
Begin(name) ==
    /\ pc = "idle"
    /\ op' = name

\* The running operation returns / raises / goes on at another position.
Return == /\ pc' = "idle"
          /\ outcome' = "returned"
          /\ raised' = NoException

Raise(exc) == /\ pc' = "idle"
              /\ outcome' = "raised"
              /\ raised' = exc

Goto(position) == /\ pc' = position
                  /\ outcome' = "none"
                  /\ raised' = NoException

(***************************************************************************)
(* close()                                                                 *)
(***************************************************************************)
\* close_prefix = CONTAINER_NAME_PREFIX if rm_all_containers else container_name
ClosePrefix(rm_all_containers, name) ==
    IF rm_all_containers THEN CONTAINER_NAME_PREFIX ELSE name

\* Mutant: close() stops after the first container it removes.
CloseEngineFirstOnly(c, cs) ==
    LET all  == StopAllContainers(ClosePrefix(c.rm_all_containers,
                                              ContainerName(c.sid)), cs)
        gone == Present(cs) \ Present(all)
    IN IF c.keep_runtime_alive \/ c.attach_to_existing \/ gone = {}
       THEN cs
       ELSE [cs EXCEPT ![CHOOSE n \in gone : \A m \in gone : Len(n) <= Len(m)]
                          = "absent"]

\* The engine after close(rm_all_containers=None) on an instance of
\* configuration c.
CloseEngine(c, cs) ==
    IF c.keep_runtime_alive \/ c.attach_to_existing
    THEN cs
    ELSE StopAllContainers(ClosePrefix(c.rm_all_containers,
                                       ContainerName(c.sid)), cs)

Close ==
    /\ Begin("close")
    /\ containers' = CloseEngine(cfg, containers)
    /\ h' = [Fresh EXCEPT !.closes = 1,
                          !.again = justClosed,
                          !.removed = Present(containers) \ Present(containers')]
    /\ Return
    /\ justClosed' = TRUE
    /\ UNCHANGED << cfg, envSteps, should_exit, container,
                    runtime_container_image, runtime_initialized, retry_count,
                    attempt_number, elapsed >>

(***************************************************************************)
(* connect(): the attach loop                                              *)
(***************************************************************************)
max_retries == 3

ConnectStart ==
    /\ Begin("connect")
    /\ retry_count' = 0
    /\ h' = Fresh
    /\ Goto("attach")
    /\ justClosed' = FALSE
    /\ UNCHANGED << cfg, containers, envSteps, should_exit, container,
                    runtime_container_image, runtime_initialized,
                    attempt_number, elapsed >>

\* What can go wrong in _attach_to_container besides the container's absence:
\* the lookup times out, the engine refuses the lookup, the engine refuses to
\* start an exited container.
AttachFaults == { "none", "timeout", "get", "start" }

\* _attach_to_container: the exception it raises, the handle it leaves in
\* self.container and the engine afterwards.
AttachToContainerResult(cs, handle, name, fault) ==
    IF fault = "timeout"
    THEN [exc |-> <<"httpx.ConnectTimeout">>, container |-> handle, cs |-> cs]
    ELSE IF fault = "get"
    THEN [exc |-> <<"docker.errors.APIError">>, container |-> handle, cs |-> cs]
    ELSE IF cs[name] = "absent"
    THEN [exc |-> <<"docker.errors.NotFound">>, container |-> handle, cs |-> cs]
    ELSE IF cs[name] = "exited" /\ fault = "start"
    THEN [exc |-> <<"docker.errors.APIError">>, container |-> name, cs |-> cs]
    ELSE [exc |-> NoException, container |-> name,
          cs |-> [cs EXCEPT ![name] = "running"]]

\* Mutant: every failure of the attach is caught and retried.
AttachFailureCaughtAll(exc) == TRUE

\* except (docker.errors.NotFound, httpx.ConnectTimeout)
AttachFailureCaught(exc) ==
    IsInstance(Head(exc), {"docker.errors.NotFound", "httpx.ConnectTimeout"})

\* Mutant: the loop gives up one failure later.
StopsAttachingLate(count, attach_to_existing) ==
    count > max_retries \/ attach_to_existing

\* if retry_count >= max_retries or self.attach_to_existing  (retry_count
\* already incremented)
StopsAttaching(count, attach_to_existing) ==
    count >= max_retries \/ attach_to_existing

\* Mutant: the attach-only check is lost and the loop goes on to creation.
AttachOnlyFallsThrough(attach_to_existing) == FALSE

\* if self.attach_to_existing: raise AgentRuntimeDisconnectedError
AttachOnlyGivesUp(attach_to_existing) == attach_to_existing

AttachToContainer ==
    /\ pc = "attach"
    /\ \E fault \in AttachFaults :
         LET r  == AttachToContainerResult(containers, container,
                                           container_name, fault)
             h1 == [h EXCEPT !.attach = @ + 1, !.lastAttach = r.exc]
             rc == retry_count + 1
         IN
         /\ containers' = r.cs
         /\ container' = r.container
         /\ IF r.exc = NoException
            THEN \* break
                 /\ h' = [h1 EXCEPT !.attached = TRUE]
                 /\ Goto("wait")
                 /\ UNCHANGED << retry_count, runtime_container_image >>
            ELSE IF ~AttachFailureCaught(r.exc)
            THEN /\ h' = h1
                 /\ Raise(r.exc)
                 /\ UNCHANGED << retry_count, runtime_container_image >>
            ELSE IF ~StopsAttaching(rc, cfg.attach_to_existing)
            THEN \* await asyncio.sleep(2 ** retry_count)
                 /\ h' = [h1 EXCEPT !.sleeps = Append(@, Pow2(rc))]
                 /\ retry_count' = rc
                 /\ Goto("attach")
                 /\ UNCHANGED runtime_container_image
            ELSE IF AttachOnlyGivesUp(cfg.attach_to_existing)
            THEN /\ h' = h1
                 /\ retry_count' = rc
                 /\ Raise(<<"AgentRuntimeDisconnectedError">>)
                 /\ UNCHANGED runtime_container_image
            ELSE IF runtime_container_image = "none" /\ cfg.image = "none"
            THEN /\ h' = h1
                 /\ retry_count' = rc
                 /\ Raise(<<"ValueError">>)
                 /\ UNCHANGED runtime_container_image
            ELSE \* build_runtime_image when no runtime image is set, then
                 \* _init_container
                 /\ h' = [h1 EXCEPT !.build = IF runtime_container_image = "none"
                                               THEN @ + 1 ELSE @]
                 /\ retry_count' = rc
                 /\ runtime_container_image' = "set"
                 /\ Goto("init_container")
    /\ attempt_number' = 0
    /\ elapsed' = 0
    /\ UNCHANGED << cfg, envSteps, should_exit, runtime_initialized, op, justClosed >>

(***************************************************************************)
(* _init_container()                                                       *)
(***************************************************************************)
\* What the engine variant probe (docker_client.version()) can yield when
\* host networking is not configured.
Detections == { "desktop", "other", "fail" }

\* network_mode after the network-mode block.
NetworkMode(use_host_network, detect) ==
    IF use_host_network THEN "host" ELSE "bridge"

\* The local variable extra_hosts after the network-mode block: it is
\* assigned on one branch only and is unbound on every other.
ExtraHosts(use_host_network, detect) ==
    IF ~use_host_network /\ detect = "other" THEN "alias" ELSE "unbound"

\* What the engine can answer to containers.run besides a name conflict.
RunFaults == { "none", "api", "io" }

\* if '409' in str(e)
IsConflict(exc) == exc = <<"docker.errors.APIError", "409">>

\* The engine's answer to containers.run for the name.
ContainersRun(cs, name, fault) ==
    IF cs[name] # "absent" THEN <<"docker.errors.APIError", "409">>
    ELSE IF fault = "api" THEN <<"docker.errors.APIError", "500">>
    ELSE IF fault = "io"  THEN <<"requests.ConnectionError">>
    ELSE NoException

InitContainer ==
    /\ pc = "init_container"
    /\ \E d \in Detections, fault \in RunFaults :
         LET detect == IF cfg.use_host_network THEN "host" ELSE d
             nm     == NetworkMode(cfg.use_host_network, detect)
             eh     == ExtraHosts(cfg.use_host_network, detect)
             h1     == [h EXCEPT !.provision = @ + 1,
                                 !.detect = detect,
                                 !.network_mode = nm,
                                 !.extra_hosts = eh]
             exc    == ContainersRun(containers, container_name, fault)
             closed == CloseEngine(cfg, containers)
         IN
         IF eh = "unbound"
         THEN \* the arguments of containers.run cannot be evaluated:
              \* except Exception -> self.close(); raise e
              /\ containers' = closed
              /\ h' = [h1 EXCEPT !.closes = @ + 1,
                                 !.removed = @ \cup (Present(containers)
                                                     \ Present(closed))]
              /\ Raise(<<"UnboundLocalError">>)
              /\ UNCHANGED container
         ELSE IF exc = NoException
         THEN /\ containers' = [containers EXCEPT ![container_name] = "running"]
              /\ container' = container_name
              /\ h' = [h1 EXCEPT !.create = @ + 1, !.created = TRUE]
              /\ Goto("wait")
         ELSE IF IsConflict(exc)
         THEN \* stop_all_containers(self.container_name);
              \* return self._init_container()
              /\ containers' = StopAllContainers(container_name, containers)
              /\ h' = [h1 EXCEPT !.create = @ + 1,
                                 !.recoveries = @ + 1,
                                 !.removed = @ \cup (Present(containers)
                                                     \ Present(containers'))]
              /\ Goto("init_container")
              /\ UNCHANGED container
         ELSE IF IsInstance(Head(exc), {"docker.errors.APIError"})
         THEN /\ h' = [h1 EXCEPT !.create = @ + 1]
              /\ Raise(exc)
              /\ UNCHANGED << containers, container >>
         ELSE /\ containers' = closed
              /\ h' = [h1 EXCEPT !.create = @ + 1,
                                 !.closes = @ + 1,
                                 !.removed = @ \cup (Present(containers)
                                                     \ Present(closed))]
              /\ Raise(exc)
              /\ UNCHANGED container
    /\ UNCHANGED << cfg, envSteps, should_exit, runtime_container_image,
                    runtime_initialized, op, retry_count,
                    attempt_number, elapsed, justClosed >>

(***************************************************************************)
(* _wait_until_alive()                                                     *)
(***************************************************************************)
\* Mutant: a missing or exited container is passed over in silence.
WaitAttemptExceptionSwallowed(status, probe) ==
    IF status = "running" THEN probe ELSE NoException

\* One attempt: the exception the body raises for the container's status and
\* the outcome of check_if_alive.
WaitAttemptException(status, probe) ==
    IF status = "absent"
    THEN \* except docker.errors.NotFound: raise AgentRuntimeNotFoundError
         <<"AgentRuntimeNotFoundError">>
    ELSE IF status = "exited"
    THEN <<"AgentRuntimeDisconnectedError">>
    ELSE probe

\* Mutant: the probe is sent to an exited container too.
ProbesExited(status) == status # "absent"

\* check_if_alive is reached in the attempt.
ProbeIssued(status) == status = "running"

WaitUntilAlive ==
    /\ pc = "wait"
    /\ \E secs \in AttemptSeconds, probe \in {NoException} \cup ProbeErrors :
         LET status == containers[container_name]
             exc    == WaitAttemptException(status, probe)
             issued == ProbeIssued(status)
             now    == elapsed + secs
             n      == attempt_number + 1
             h1     == [h EXCEPT
                          !.lookups = 1,
                          !.probed = issued,
                          !.notFound = IF status = "absent" THEN 1 ELSE @,
                          !.probes = IF issued THEN 1 ELSE @,
                          !.earlyProbe = @ \/ (issued /\ op = "connect"
                                               /\ ~(h.attached \/ h.created)),
                          !.probeOk = @ \/ (issued /\ exc = NoException)]
         IN
         IF exc = NoException
         THEN /\ h' = h1
              /\ IF op = "connect" THEN Goto("setup") ELSE Return
              /\ UNCHANGED << attempt_number, elapsed >>
         ELSE IF ~_is_retryable_wait_until_alive_error(exc)
         THEN /\ h' = h1
              /\ Raise(exc)
              /\ UNCHANGED << attempt_number, elapsed >>
         ELSE IF StopRetrying(now, should_exit)
         THEN \* reraise=True: the last attempt's exception
              /\ h' = [h1 EXCEPT !.exhausted = now >= StopDelay]
              /\ Raise(exc)
              /\ UNCHANGED << attempt_number, elapsed >>
         ELSE /\ h' = h1
              /\ attempt_number' = n
              /\ elapsed' = now + WaitExponential(n)
              /\ Goto("wait")
    /\ UNCHANGED << cfg, containers, envSteps, should_exit, container,
                    runtime_container_image, runtime_initialized, op,
                    retry_count, justClosed >>

(***************************************************************************)
(* connect(): after the liveness phase                                     *)
(***************************************************************************)
\* Mutant: the setup runs whatever the flag.
RunsInitialSetupAlways(attach_to_existing) == TRUE

\* if not self.attach_to_existing: setup_initial_env()
RunsInitialSetup(attach_to_existing) == ~attach_to_existing

SetupInitialEnv ==
    /\ pc = "setup"
    /\ LET runs == RunsInitialSetup(cfg.attach_to_existing)
       IN \E fails \in BOOLEAN :
            /\ h' = [h EXCEPT !.setup = runs,
                              !.earlySetup = runs /\ ~h.probeOk]
            /\ IF runs /\ fails
               THEN /\ Raise(<<"Exception">>)
                    /\ UNCHANGED runtime_initialized
               ELSE /\ runtime_initialized' = TRUE
                    /\ Return
    /\ UNCHANGED << cfg, containers, envSteps, should_exit, container,
                    runtime_container_image, op, retry_count,
                    attempt_number, elapsed, justClosed >>

(***************************************************************************)
(* pause() and resume()                                                    *)
(***************************************************************************)
\* Mutant: the container is removed instead of stopped.
PauseEngineRemoves(cs, handle) == [cs EXCEPT ![handle] = "absent"]

\* self.container.stop()
PauseEngine(cs, handle) == [cs EXCEPT ![handle] = "exited"]

Pause ==
    /\ Begin("pause")
    /\ h' = Fresh
    /\ IF container = NoContainer
       THEN /\ Raise(<<"RuntimeError">>)
            /\ UNCHANGED containers
       ELSE IF containers[container] = "absent"
       THEN /\ Raise(<<"docker.errors.NotFound">>)
            /\ UNCHANGED containers
       ELSE /\ containers' = PauseEngine(containers, container)
            /\ Return
    /\ justClosed' = FALSE
    /\ UNCHANGED << cfg, envSteps, should_exit, container,
                    runtime_container_image, runtime_initialized, retry_count,
                    attempt_number, elapsed >>

Resume ==
    /\ Begin("resume")
    /\ IF container = NoContainer
       THEN /\ h' = Fresh
            /\ Raise(<<"RuntimeError">>)
            /\ UNCHANGED containers
       ELSE IF containers[container] = "absent"
       THEN /\ h' = Fresh
            /\ Raise(<<"docker.errors.NotFound">>)
            /\ UNCHANGED containers
       ELSE /\ containers' = [containers EXCEPT ![container] = "running"]
            /\ h' = [Fresh EXCEPT !.started = TRUE]
            /\ Goto("wait")
    /\ attempt_number' = 0
    /\ elapsed' = 0
    /\ justClosed' = FALSE
    /\ UNCHANGED << cfg, envSteps, should_exit, container,
                    runtime_container_image, runtime_initialized, retry_count >>

(***************************************************************************)
(* Other users of the engine, and the process's exit signal.               *)
(***************************************************************************)
EnvStep ==
    /\ envSteps < MaxEnvSteps
    /\ envSteps' = envSteps + 1
    /\ justClosed' = FALSE
    /\ UNCHANGED << cfg, container, runtime_container_image,
                    runtime_initialized, op, pc, retry_count, attempt_number,
                    elapsed, outcome, raised, h >>

\* The containers other users of the engine act on during a run: the one
\* this session's name denotes.  Those of other sessions stay as they start.
Contended == { container_name }

\* Another process runs a container under the session's name.
OtherRuns ==
    /\ EnvStep
    /\ \E n \in Contended :
         /\ containers[n] = "absent"
         /\ containers' = [containers EXCEPT ![n] = "running"]
    /\ UNCHANGED should_exit

\* Another process (or an operator) removes the container.
OtherRemoves ==
    /\ EnvStep
    /\ \E n \in Contended :
         /\ containers[n] # "absent"
         /\ containers' = [containers EXCEPT ![n] = "absent"]
    /\ UNCHANGED should_exit

\* The process inside the container ends.
ContainerExits ==
    /\ EnvStep
    /\ \E n \in Contended :
         /\ containers[n] = "running"
         /\ containers' = [containers EXCEPT ![n] = "exited"]
    /\ UNCHANGED should_exit

\* The process is asked to shut down.
ShouldExit ==
    /\ EnvStep
    /\ ~should_exit
    /\ should_exit' = TRUE
    /\ UNCHANGED containers

(***************************************************************************)
(* The container specification of _init_container and its reconstruction   *)
(* by _attach_to_container.                                                *)
(*                                                                         *)
(* A text is a sequence of tokens: a key, "=", "/tcp", or a decimal digit. *)
(***************************************************************************)
EXECUTION_SERVER_PORT_RANGE == <<30000, 39999>>
VSCODE_PORT_RANGE == <<40000, 49999>>
APP_PORT_RANGE_1 == <<50000, 54999>>
APP_PORT_RANGE_2 == <<55000, 59999>>

Digits == <<"0", "1", "2", "3", "4", "5", "6", "7", "8", "9">>

\* str(n) for n >= 0
RECURSIVE Str(_)
Str(n) == IF n < 10 THEN << Digits[n + 1] >>
          ELSE Str(n \div 10) \o << Digits[(n % 10) + 1] >>

DigitValue(c) == (CHOOSE i \in 1..10 : Digits[i] = c) - 1

IsNumber(t) == /\ Len(t) > 0
               /\ \A i \in 1..Len(t) : \E d \in 1..10 : Digits[d] = t[i]

\* int(t) for a text of digits
RECURSIVE ToInt(_)
ToInt(t) == IF Len(t) = 1 THEN DigitValue(t[1])
          ELSE 10 * ToInt(SubSeq(t, 1, Len(t) - 1)) + DigitValue(t[Len(t)])

\* A dict in insertion order: a sequence of <<key, value>> with distinct keys.
DictKeys(d) == { d[i][1] : i \in 1..Len(d) }

DictGet(d, k) == d[CHOOSE i \in 1..Len(d) : d[i][1] = k][2]

\* d[k] = v
DictSet(d, k, v) ==
    IF k \in DictKeys(d)
    THEN [i \in 1..Len(d) |-> IF d[i][1] = k THEN <<k, v>> ELSE d[i]]
    ELSE Append(d, <<k, v>>)

\* d.update(u)
RECURSIVE DictUpdate(_, _)
DictUpdate(d, u) ==
    IF u = <<>> THEN d
    ELSE DictUpdate(DictSet(d, Head(u)[1], Head(u)[2]), Tail(u))

\* The ports a call of _init_container allocates: _host_port (which is also
\* _container_port), _vscode_port, _app_ports.
NoPorts == [host |-> -1, vscode |-> -1, app |-> <<>>]

\* environment as built before runtime_startup_env_vars is merged in.
DefaultEnvironment(ports, debug) ==
    << <<"port", Str(ports.host)>>,
       <<"PYTHONUNBUFFERED", <<"1">> >>,
       <<"VSCODE_PORT", Str(ports.vscode)>>,
       <<"PIP_BREAK_SYSTEM_PACKAGES", <<"1">> >>,
       <<"HOST_HOSTNAME", <<"host.docker.internal">> >>,
       <<"DOCKER_DEFAULT_PLATFORM", <<"linux/amd64">> >>,
       <<"DOCKER_BUILDKIT", <<"1">> >>,
       <<"DOCKER_DNS", <<"8.8.8.8">> >> >>
    \o (IF debug
        THEN << <<"DEBUG", <<"true">> >>,
                <<"DOCKER_BUILDKIT_PROGRESS", <<"plain">> >> >>
        ELSE <<>>)

\* environment.update(self.config.sandbox.runtime_startup_env_vars)
Environment(ports, debug, runtime_startup_env_vars) ==
    DictUpdate(DefaultEnvironment(ports, debug), runtime_startup_env_vars)

\* Mutant: the ports are published in host-network mode as well.
PortMappingInEveryMode(ports, use_host_network, vscode_enabled) ==
    << ports.host >>
    \o (IF vscode_enabled THEN << ports.vscode >> ELSE <<>>)
    \o ports.app

\* Mutant: the loop over the application ports is lost.
PortMappingWithoutApps(ports, use_host_network, vscode_enabled) ==
    IF use_host_network THEN <<>>
    ELSE << ports.host >>
         \o (IF vscode_enabled THEN << ports.vscode >> ELSE <<>>)

\* port_mapping: None in host-network mode, else the container ports that
\* get a host binding, in insertion order.
PortMapping(ports, use_host_network, vscode_enabled) ==
    IF use_host_network THEN <<>>
    ELSE << ports.host >>
         \o (IF vscode_enabled THEN << ports.vscode >> ELSE <<>>)
         \o ports.app

\* The engine's Config.Env of the container: one KEY=VALUE text per entry.
ConfigEnv(environment) ==
    [i \in 1..Len(environment) |->
        << environment[i][1], "=" >> \o environment[i][2]]

\* Sorted(S): the numbers of S in increasing order.
RECURSIVE Sorted(_)
Sorted(S) == IF S = {} THEN <<>>
             ELSE LET m == CHOOSE x \in S : \A y \in S : x <= y
                  IN << m >> \o Sorted(S \ {m})

\* The engine's Config.ExposedPorts: a "<port>/tcp" key per published port.
\* The engine lists the keys of the set in lexicographic order, which for
\* the five-digit ports of the four ranges is the numeric order.
ConfigExposedPorts(port_mapping) ==
    LET sorted == Sorted({ port_mapping[i] : i \in 1..Len(port_mapping) })
    IN [i \in 1..Len(sorted) |-> Str(sorted[i]) \o << "/tcp" >>]

\* env_var.split('port=')[1], exposed_port.split('/tcp')[0]
AfterPrefix(t, prefix) == SubSeq(t, Len(prefix) + 1, Len(t))
BeforeSuffix(t, suffix) == SubSeq(t, 1, Len(t) - Len(suffix))

\* The loop over config['Env']: the entry that sets the port last wins.
RECURSIVE EnvPorts(_, _)
EnvPorts(env, ports) ==
    IF env = <<>> THEN ports
    ELSE LET e == Head(env)
         IN IF StartsWith(e, <<"port", "=">>)
            THEN EnvPorts(Tail(env),
                   [ports EXCEPT !.host = ToInt(AfterPrefix(e, <<"port", "=">>))])
            ELSE IF StartsWith(e, <<"VSCODE_PORT", "=">>)
            THEN EnvPorts(Tail(env),
                   [ports EXCEPT !.vscode =
                       ToInt(AfterPrefix(e, <<"VSCODE_PORT", "=">>))])
            ELSE EnvPorts(Tail(env), ports)

\* The loop over config['ExposedPorts']: every exposed port that is neither
\* the control port nor the editor port is an application port.
RECURSIVE AppPorts(_, _)
AppPorts(exposed, ports) ==
    IF exposed = <<>> THEN <<>>
    ELSE LET port == ToInt(BeforeSuffix(Head(exposed), << "/tcp" >>))
         IN (IF port # ports.host /\ port # ports.vscode
             THEN << port >> ELSE <<>>)
            \o AppPorts(Tail(exposed), ports)

\* _attach_to_container: the port assignment read back from the container.
AttachedPorts(config, before) ==
    LET p == EnvPorts(config.Env, before)
    IN [p EXCEPT !.app = AppPorts(config.ExposedPorts, p)]

\* Candidate ports find_available_tcp_port is taken to return in a range.
Candidates(range) == { range[1], range[2] }

\* Caller-supplied startup environments.
StartupEnvs ==
    { <<>>,
      << <<"FOO", <<"1">> >> >>,
      << <<"port", Str(39999)>> >>,
      << <<"VSCODE_PORT", Str(49999)>>, <<"FOO", <<"1">> >> >> }

VARIABLES
    pcfg,       \* the configuration the container specification depends on
    ppc,        \* new, allocated, running, attached, failed
    allocated,  \* the ports _init_container allocated
    spec,       \* the arguments of containers.run
    created,    \* Config of the container in the engine, once created
    attached    \* the ports a later _attach_to_container sets

portVars == << pcfg, ppc, allocated, spec, created, attached >>

PortConfigs ==
    [ use_host_network         : BOOLEAN,
      vscode_enabled           : BOOLEAN,
      debug                    : BOOLEAN,
      detect                   : Detections,
      runtime_startup_env_vars : StartupEnvs ]

NoSpec == [ network_mode |-> "none", extra_hosts |-> "unbound",
            ports |-> <<>>, environment |-> <<>> ]

NoConfig == [ Env |-> <<>>, ExposedPorts |-> <<>> ]

PortsInit ==
    /\ pcfg \in PortConfigs
    /\ ppc = "new"
    /\ allocated = NoPorts
    /\ spec = NoSpec
    /\ created = NoConfig
    /\ attached = NoPorts

\* The ports block of _init_container.
AllocatePorts ==
    /\ ppc = "new"
    /\ \E hp \in Candidates(EXECUTION_SERVER_PORT_RANGE),
          vp \in Candidates(VSCODE_PORT_RANGE),
          a1 \in Candidates(APP_PORT_RANGE_1),
          a2 \in Candidates(APP_PORT_RANGE_2) :
         allocated' = [host |-> hp, vscode |-> vp, app |-> <<a1, a2>>]
    /\ ppc' = "allocated"
    /\ UNCHANGED << pcfg, spec, created, attached >>

\* The rest of _init_container: the specification is assembled and
\* containers.run is called; the engine accepts the request.
RunContainer ==
    /\ ppc = "allocated"
    /\ LET eh == ExtraHosts(pcfg.use_host_network, pcfg.detect)
           pm == PortMapping(allocated, pcfg.use_host_network,
                             pcfg.vscode_enabled)
           en == Environment(allocated, pcfg.debug,
                             pcfg.runtime_startup_env_vars)
       IN /\ spec' = [ network_mode |-> NetworkMode(pcfg.use_host_network,
                                                    pcfg.detect),
                       extra_hosts  |-> eh,
                       ports        |-> pm,
                       environment  |-> en ]
          /\ IF eh = "unbound"
             THEN /\ ppc' = "failed"
                  /\ UNCHANGED created
             ELSE /\ ppc' = "running"
                  /\ created' = [ Env          |-> ConfigEnv(en),
                                  ExposedPorts |-> ConfigExposedPorts(pm) ]
    /\ UNCHANGED << pcfg, allocated, attached >>

\* A later instance of the same session attaches to the container.
AttachPorts ==
    /\ ppc = "running"
    /\ attached' = AttachedPorts(created, NoPorts)
    /\ ppc' = "attached"
    /\ UNCHANGED << pcfg, allocated, spec, created >>

\* The lifecycle does not move in SpecPorts, the ports do not move in Spec.
LifecycleIdle ==
    /\ cfg = CHOOSE c \in Configs : TRUE
    /\ containers = [n \in Names |-> "absent"]
    /\ envSteps = 0
    /\ should_exit = FALSE
    /\ container = NoContainer
    /\ runtime_container_image = "none"
    /\ runtime_initialized = FALSE
    /\ op = "none"
    /\ pc = "idle"
    /\ retry_count = 0
    /\ attempt_number = 0
    /\ elapsed = 0
    /\ outcome = "none"
    /\ raised = NoException
    /\ h = Fresh
    /\ justClosed = FALSE

PortsIdle ==
    /\ pcfg = CHOOSE c \in PortConfigs : TRUE
    /\ ppc = "new"
    /\ allocated = NoPorts
    /\ spec = NoSpec
    /\ created = NoConfig
    /\ attached = NoPorts

(***************************************************************************)
(* _find_available_port() and _is_port_in_use_docker()                     *)
(***************************************************************************)
\* The largest max_attempts a call is given (the default is 5).
MaxAttempts == 5

\* s occurs in t: Python's "s in t" for texts.
Contains(t, s) ==
    \E i \in 0..(Len(t) - Len(s)) : SubSeq(t, i + 1, i + Len(s)) = s

\* str(container.ports) of a running container that publishes port p.
ContainerPortsText(p) ==
    Str(p) \o << "/tcp", "HostIp", "127.0.0.1", "HostPort" >> \o Str(p)

\* Mutant: the ports of the running containers are not looked at.
PortNeverInUse(port, running) == FALSE

\* _is_port_in_use_docker(port), running being the ports the running
\* containers publish, one container each.
_is_port_in_use_docker(port, running) ==
    \E p \in running : Contains(ContainerPortsText(p), Str(port))

\* A port some other service's container publishes.
ForeignPort == 8080

\* The ranges _find_available_port is called with.
PortRanges == { EXECUTION_SERVER_PORT_RANGE, VSCODE_PORT_RANGE,
                APP_PORT_RANGE_1, APP_PORT_RANGE_2 }

VARIABLES
    port_range,     \* the argument port_range
    max_attempts,   \* the argument max_attempts
    running_ports,  \* ports published by the containers running during the call
    apc,            \* call, loop, returned
    port,           \* the local variable port; the result once returned
    drawn,          \* find_available_tcp_port calls made
    rejected        \* of which _is_port_in_use_docker rejected the port

allocVars == << port_range, max_attempts, running_ports, apc, port, drawn,
                rejected >>

AllocatorInit ==
    /\ port_range \in PortRanges
    /\ max_attempts \in 0..MaxAttempts
    /\ running_ports \in SUBSET (Candidates(port_range) \cup {ForeignPort})
    /\ apc = "call"
    /\ port = -1
    /\ drawn = 0
    /\ rejected = 0

AllocatorIdle ==
    /\ port_range = EXECUTION_SERVER_PORT_RANGE
    /\ max_attempts = 0
    /\ running_ports = {}
    /\ apc = "call"
    /\ port = -1
    /\ drawn = 0
    /\ rejected = 0

\* port = port_range[1]
FindStart ==
    /\ apc = "call"
    /\ port' = port_range[2]
    /\ apc' = "loop"
    /\ UNCHANGED << port_range, max_attempts, running_ports, drawn, rejected >>

\* One round of the loop: a candidate is drawn and returned unless a running
\* container publishes it.
FindDraw ==
    /\ apc = "loop"
    /\ drawn < max_attempts
    /\ \E candidate \in Candidates(port_range) :
         /\ port' = candidate
         /\ drawn' = drawn + 1
         /\ IF _is_port_in_use_docker(candidate, running_ports)
            THEN /\ rejected' = rejected + 1
                 /\ apc' = "loop"
            ELSE /\ apc' = "returned"
                 /\ UNCHANGED rejected
    /\ UNCHANGED << port_range, max_attempts, running_ports >>

\* The loop is over: the last port tried is returned.
FindGiveUp ==
    /\ apc = "loop"
    /\ drawn = max_attempts
    /\ apc' = "returned"
    /\ UNCHANGED << port_range, max_attempts, running_ports, port, drawn,
                    rejected >>

(***************************************************************************)
(* delete(conversation_id)                                                 *)
(***************************************************************************)
\* The conversations delete is called for; "x" has never had a container.
DeleteIds == Sids \cup { << "x" >> }

DeleteNames == { ContainerName(s) : s \in DeleteIds } \cup { ForeignName }

\* What the engine can answer besides its normal reply: an API error on
\* containers.get or on container.remove.
DeleteFaults == { "none", "lookup", "remove" }

\* docker_client.containers.get(name)
ContainersGet(cs, name, fault) ==
    IF fault = "lookup" THEN << "docker.errors.APIError", "500" >>
    ELSE IF cs[name] = "absent" THEN << "docker.errors.NotFound" >>
    ELSE NoException

\* container.remove(force=force): a running container is removed only when
\* forced.
ContainerRemove(cs, name, force, fault) ==
    IF fault = "remove" THEN << "docker.errors.APIError", "500" >>
    ELSE IF cs[name] = "running" /\ ~force
         THEN << "docker.errors.APIError", "409" >>
    ELSE NoException

\* Mutant: only a missing container is tolerated.
DeleteSwallowsNotFoundOnly(exc) == Head(exc) = "docker.errors.NotFound"

\* except docker.errors.APIError: pass / except docker.errors.NotFound: pass
DeleteSwallows(exc) ==
    \/ IsInstance(Head(exc), {"docker.errors.APIError"})
    \/ IsInstance(Head(exc), {"docker.errors.NotFound"})

VARIABLES
    engine,     \* the engine seen by delete: name -> status
    client,     \* the client _init_docker_client caches: none, open, closed
    deleted,    \* the last delete call: its argument, the engine before it,
                \* the engine's fault and the exception it raised
    holders     \* the sessions whose instance has the cached client as its
                \* self.docker_client

deleteVars == << engine, client, deleted, holders >>

NoDelete ==
    [ id |-> << >>, before |-> [n \in DeleteNames |-> "absent"],
      fault |-> "none", raised |-> NoException ]

DeleteInit ==
    /\ engine \in [DeleteNames -> Statuses]
    /\ client \in {"none", "open"}
    /\ deleted = NoDelete
    /\ holders \in SUBSET Sids
    /\ holders # {} => client = "open"

\* The process before any instance is constructed: nothing is cached.
ClientInit ==
    /\ engine \in [DeleteNames -> Statuses]
    /\ client = "none"
    /\ deleted = NoDelete
    /\ holders = {}

DeleteIdle ==
    /\ engine = [n \in DeleteNames |-> "absent"]
    /\ client = "none"
    /\ deleted = NoDelete
    /\ holders = {}

\* delete(conversation_id): the client is the cached one (a closed client
\* serves later calls over a new connection pool), the container of exactly
\* the conversation's name is force-removed, and the client is closed.
Delete ==
    \E conversation_id \in DeleteIds, fault \in DeleteFaults :
      LET name    == CONTAINER_NAME_PREFIX \o conversation_id
          got     == ContainersGet(engine, name, fault)
          removal == IF got = NoException
                     THEN ContainerRemove(engine, name, TRUE, fault)
                     ELSE got
      IN  /\ engine' = IF removal = NoException
                       THEN [engine EXCEPT ![name] = "absent"]
                       ELSE engine
          /\ deleted' = [ id |-> conversation_id, before |-> engine,
                          fault |-> fault,
                          raised |-> IF removal = NoException
                                        \/ DeleteSwallows(removal)
                                     THEN NoException ELSE removal ]
          /\ client' = "closed"
          /\ UNCHANGED holders

\* _init_docker_client() under lru_cache(maxsize=1): the first call makes the
\* client, every later call returns that same object, closed or not.
InitDockerClient(cached) == IF cached = "none" THEN "open" ELSE cached

\* __init__ of a new instance: self.docker_client = _init_docker_client()
NewInstance ==
    \E sid \in Sids \ holders :
        /\ client' = InitDockerClient(client)
        /\ holders' = holders \cup {sid}
        /\ UNCHANGED << engine, deleted >>

\* An operation of an instance on its own container: connect() and resume()
\* leave it running, pause() exited, close() removed.  None of them closes
\* the client.
InstanceOperation ==
    \E sid \in holders, status \in Statuses :
        /\ engine' = [engine EXCEPT ![ContainerName(sid)] = status]
        /\ UNCHANGED << client, deleted, holders >>

(***************************************************************************)
(* The shutdown hook of __init__, constructors running in threads.         *)
(***************************************************************************)
\* The number of DockerRuntime instances constructed.
MaxInstances == 3

Instances == 1..MaxInstances

\* DockerRuntime._shutdown_listener_id = None
NoListener == 0

VARIABLES
    _shutdown_listener_id,  \* the class attribute: NoListener or an id
    ipc,                    \* each constructor's position
    listener_id,            \* the id add_shutdown_listener returned to each
    listeners               \* the add_shutdown_listener calls made so far

hookVars == << _shutdown_listener_id, ipc, listener_id, listeners >>

HookInit ==
    /\ _shutdown_listener_id = NoListener
    /\ ipc = [i \in Instances |-> "new"]
    /\ listener_id = [i \in Instances |-> NoListener]
    /\ listeners = 0

HookIdle == HookInit

\* if not DockerRuntime._shutdown_listener_id:
CheckListener(i) ==
    /\ ipc[i] = "new"
    /\ ipc' = [ipc EXCEPT ![i] = IF _shutdown_listener_id = NoListener
                                 THEN "register" ELSE "constructed"]
    /\ UNCHANGED << _shutdown_listener_id, listener_id, listeners >>

\* add_shutdown_listener(lambda: stop_all_containers(CONTAINER_NAME_PREFIX))
AddShutdownListener(i) ==
    /\ ipc[i] = "register"
    /\ listeners' = listeners + 1
    /\ listener_id' = [listener_id EXCEPT ![i] = listeners + 1]
    /\ ipc' = [ipc EXCEPT ![i] = "assign"]
    /\ UNCHANGED _shutdown_listener_id

\* DockerRuntime._shutdown_listener_id = <the id returned>
AssignListener(i) ==
    /\ ipc[i] = "assign"
    /\ _shutdown_listener_id' = listener_id[i]
    /\ ipc' = [ipc EXCEPT ![i] = "constructed"]
    /\ UNCHANGED << listener_id, listeners >>

\* ---- composition ----
allVars == << vars, portVars, allocVars, deleteVars, hookVars >>

\* One instance's lifecycle against the engine.
InitLifecycle ==
    /\ Init
    /\ PortsIdle
    /\ AllocatorIdle
    /\ DeleteIdle
    /\ HookIdle

Next ==
    \/ ConnectStart /\ UNCHANGED << portVars, allocVars, deleteVars, hookVars >>
    \/ AttachToContainer /\ UNCHANGED << portVars, allocVars, deleteVars, hookVars >>
    \/ InitContainer /\ UNCHANGED << portVars, allocVars, deleteVars, hookVars >>
    \/ WaitUntilAlive /\ UNCHANGED << portVars, allocVars, deleteVars, hookVars >>
    \/ SetupInitialEnv /\ UNCHANGED << portVars, allocVars, deleteVars, hookVars >>
    \/ Pause /\ UNCHANGED << portVars, allocVars, deleteVars, hookVars >>
    \/ Resume /\ UNCHANGED << portVars, allocVars, deleteVars, hookVars >>
    \/ Close /\ UNCHANGED << portVars, allocVars, deleteVars, hookVars >>
    \/ OtherRuns /\ UNCHANGED << portVars, allocVars, deleteVars, hookVars >>
    \/ OtherRemoves /\ UNCHANGED << portVars, allocVars, deleteVars, hookVars >>
    \/ ContainerExits /\ UNCHANGED << portVars, allocVars, deleteVars, hookVars >>
    \/ ShouldExit /\ UNCHANGED << portVars, allocVars, deleteVars, hookVars >>

Spec == InitLifecycle /\ [][Next]_allVars

\* One container's specification and its reconstruction on attach.
InitPorts ==
    /\ PortsInit
    /\ LifecycleIdle
    /\ AllocatorIdle
    /\ DeleteIdle
    /\ HookIdle

NextPorts ==
    \/ AllocatePorts /\ UNCHANGED << vars, allocVars, deleteVars, hookVars >>
    \/ RunContainer /\ UNCHANGED << vars, allocVars, deleteVars, hookVars >>
    \/ AttachPorts /\ UNCHANGED << vars, allocVars, deleteVars, hookVars >>

SpecPorts == InitPorts /\ [][NextPorts]_allVars

\* One call of _find_available_port.
InitAllocator ==
    /\ AllocatorInit
    /\ LifecycleIdle
    /\ PortsIdle
    /\ DeleteIdle
    /\ HookIdle

NextAllocator ==
    \/ FindStart /\ UNCHANGED << vars, portVars, deleteVars, hookVars >>
    \/ FindDraw /\ UNCHANGED << vars, portVars, deleteVars, hookVars >>
    \/ FindGiveUp /\ UNCHANGED << vars, portVars, deleteVars, hookVars >>

SpecAllocator == InitAllocator /\ [][NextAllocator]_allVars

\* Calls of delete against the engine.
InitDelete ==
    /\ DeleteInit
    /\ LifecycleIdle
    /\ PortsIdle
    /\ AllocatorIdle
    /\ HookIdle

NextDelete ==
    \/ Delete /\ UNCHANGED << vars, portVars, allocVars, hookVars >>

SpecDelete == InitDelete /\ [][NextDelete]_allVars

\* Constructors of several instances, each in its own thread.
InitHook ==
    /\ HookInit
    /\ LifecycleIdle
    /\ PortsIdle
    /\ AllocatorIdle
    /\ DeleteIdle

NextHook ==
    \/ (\E i \in Instances : CheckListener(i)) /\ UNCHANGED << vars, portVars, allocVars, deleteVars >>
    \/ (\E i \in Instances : AddShutdownListener(i)) /\ UNCHANGED << vars, portVars, allocVars, deleteVars >>
    \/ (\E i \in Instances : AssignListener(i)) /\ UNCHANGED << vars, portVars, allocVars, deleteVars >>

SpecHook == InitHook /\ [][NextHook]_allVars

\* Calls of delete interleaved with the instances that share the client.
InitClient ==
    /\ ClientInit
    /\ LifecycleIdle
    /\ PortsIdle
    /\ AllocatorIdle
    /\ HookIdle

NextClient ==
    \/ Delete /\ UNCHANGED << vars, portVars, allocVars, hookVars >>
    \/ NewInstance /\ UNCHANGED << vars, portVars, allocVars, hookVars >>
    \/ InstanceOperation /\ UNCHANGED << vars, portVars, allocVars, hookVars >>

SpecClient == InitClient /\ [][NextClient]_allVars

\* ---- end of composition ----

(***************************************************************************)
(* Properties of the port assignment (checked under SpecPorts).            *)
(***************************************************************************)
\* C7 as stated: attaching to a container _init_container created sets the
\* control port, the editor port and the application ports, in order, that
\* were allocated at its creation.
C7_AttachReconstructsPorts ==
    ppc = "attached" => attached = allocated

(***************************************************************************)
(* Properties of the lifecycle (checked under Spec).                       *)
(***************************************************************************)
Done == pc = "idle"
Returned == Done /\ outcome = "returned"
Raised(cls) == Done /\ outcome = "raised" /\ raised = <<cls>>

\* C1: connect() in attach-only mode never builds an image and never creates
\* a container, makes at most 3 attach attempts, and when an attach attempt
\* finds no container of the session's name it ends at once by raising
\* AgentRuntimeDisconnectedError.
C1_AttachOnlyNeverCreates ==
    (op = "connect" /\ cfg.attach_to_existing) =>
        /\ h.build = 0
        /\ h.provision = 0
        /\ h.create = 0
        /\ h.attach <= max_retries
        /\ (h.lastAttach = <<"docker.errors.NotFound">> =>
                Raised("AgentRuntimeDisconnectedError"))

C1_Witness ==
    /\ op = "connect"
    /\ cfg.attach_to_existing
    /\ h.attach = 1
    /\ h.lastAttach = <<"docker.errors.NotFound">>
    /\ Raised("AgentRuntimeDisconnectedError")

\* C2 as stated: whenever an attach attempt of connect() succeeded, connect()
\* does not run the initial-environment setup.
C2_NoSetupAfterAttach ==
    (op = "connect" /\ h.attached) => ~h.setup

\* C2 amended: connect() runs the initial-environment setup exactly when
\* attach_to_existing is false: never when it is true, and always before
\* returning when it is false, whether the container was attached or created.
C2_SetupFollowsFlag ==
    op = "connect" =>
        /\ (h.setup => ~cfg.attach_to_existing)
        /\ (Returned => (h.setup <=> ~cfg.attach_to_existing))

C2_Witness ==
    /\ op = "connect"
    /\ Returned
    /\ h.attached
    /\ ~h.created
    /\ h.setup

\* C3: in connect() no liveness probe is issued before an attach succeeded or
\* a creation returned, the setup is never started before a probe succeeded,
\* and _runtime_initialized is set only after a probe succeeded.
C3_Ordering ==
    /\ [](op = "connect" =>
            /\ ~h.earlyProbe
            /\ (h.probes > 0 => h.attached \/ h.created)
            /\ ~h.earlySetup
            /\ (h.setup => h.probeOk))
    /\ [][(~runtime_initialized /\ runtime_initialized') =>
            (op = "connect" /\ h.probeOk)]_vars

C3_Witness ==
    /\ op = "connect"
    /\ Returned
    /\ h.created
    /\ h.probeOk
    /\ h.setup
    /\ runtime_initialized

\* C4 as stated: one provisioning answers a name conflict by remove-and-retry
\* at most once.
C4_ConflictRecoveredOnce ==
    op = "connect" => h.recoveries <= 1

\* C5 as stated: the liveness phase does not end on a not-found attempt while
\* the time budget and the cancellation signal allow another attempt.
C5_NotFoundRetried ==
    (op \in {"connect", "resume"} /\ Raised("AgentRuntimeNotFoundError")) =>
        \E secs \in AttemptSeconds : StopRetrying(elapsed + secs, should_exit)

\* C6 as stated: in bridge mode a failed engine variant probe selects bridge
\* mode, registers the host-gateway alias and the creation call is issued.
C6_DetectionFailureHarmless ==
    (op = "connect" /\ h.detect = "fail") =>
        /\ h.network_mode = "bridge"
        /\ h.extra_hosts = "alias"
        /\ h.create > 0

\* C8: a close() directly after a close() returns normally and removes no
\* container.
C8_CloseTwice ==
    (op = "close" /\ h.again) =>
        /\ Returned
        /\ h.removed = {}

C8_Witness ==
    /\ op = "close"
    /\ h.again
    /\ ~cfg.keep_runtime_alive
    /\ ~cfg.attach_to_existing
    /\ containers[container_name] = "absent"

\* C9 as stated: with keep-alive off, attach-only off and rm_all_containers
\* unset, close() removes no container of another session.
C9_CloseLeavesOtherSessions ==
    ( /\ op = "close"
      /\ ~cfg.keep_runtime_alive
      /\ ~cfg.attach_to_existing
      /\ ~cfg.rm_all_containers ) =>
        h.removed \subseteq {container_name}

C15_ThreeBackoffRounds ==
    (op = "connect" /\ (pc = "init_container" \/ h.provision > 0)) =>
        h.sleeps = <<2, 4, 8>>

\* C15 amended: with attach-only false, connect() reaches provisioning after
\* 3 failed attach attempts separated by 2 backoff rounds, of 2 s and 4 s;
\* no sleep follows the third failure.
C15_TwoBackoffRounds ==
    (op = "connect" /\ (pc = "init_container" \/ h.provision > 0)) =>
        /\ ~cfg.attach_to_existing
        /\ h.attach = max_retries
        /\ h.sleeps = <<2, 4>>

C15_Witness ==
    /\ op = "connect"
    /\ h.provision > 0
    /\ h.attach = 3
    /\ h.lastAttach = <<"docker.errors.NotFound">>
    /\ h.sleeps = <<2, 4>>

\* A step of pause() (or no step at all): the instance is idle, no other
\* engine user moves, and pause is the operation run last afterwards.
PauseStep == pc = "idle" /\ op' = "pause" /\ envSteps' = envSteps

\* C16: pause() without a container handle raises and leaves the engine as
\* it is; with a handle it removes no container, and when it returns the
\* container is in the engine, stopped; a resume() that follows while the
\* container is still there starts it.
C16_PauseStopsWithoutRemoving ==
    /\ [][PauseStep =>
            IF container = NoContainer
            THEN /\ containers' = containers
                 /\ outcome' = "raised"
                 /\ raised' = <<"RuntimeError">>
            ELSE /\ Present(containers') = Present(containers)
                 /\ (outcome' = "returned" =>
                        containers'[container] = "exited")]_vars
    /\ [][( /\ pc = "idle" /\ op = "pause" /\ outcome = "returned"
            /\ op' = "resume"
            /\ containers[container] # "absent" ) =>
            (h'.started /\ containers'[container] = "running")]_vars

C16_Witness ==
    /\ op = "pause"
    /\ Returned
    /\ container # NoContainer
    /\ containers[container] = "exited"

\* C17: connect() issues a creation call only with attach-only false and
\* after exactly 3 attach attempts that each failed with not-found or
\* connect-timeout; after a successful attach it issues none; an attach
\* failure of another class ends connect() with that failure, without a
\* retry and without creation.
C17_CreationOnlyAfterThreeFailures ==
    op = "connect" =>
        /\ (h.provision > 0 \/ h.create > 0 \/ pc = "init_container") =>
              /\ ~cfg.attach_to_existing
              /\ h.attach = max_retries
              /\ ~h.attached
              /\ Len(h.sleeps) = max_retries - 1
              /\ Head(h.lastAttach) \in {"docker.errors.NotFound",
                                         "httpx.ConnectTimeout"}
        /\ h.attached => (h.provision = 0 /\ h.create = 0)
        /\ ( /\ h.lastAttach # NoException
             /\ Head(h.lastAttach) \notin {"docker.errors.NotFound",
                                           "httpx.ConnectTimeout"} ) =>
              /\ Done
              /\ outcome = "raised"
              /\ raised = h.lastAttach
              /\ Len(h.sleeps) = h.attach - 1
              /\ h.provision = 0
              /\ h.create = 0

C17_Witness ==
    /\ op = "connect"
    /\ h.create > 0
    /\ h.created
    /\ h.attach = 3
    /\ h.lastAttach = <<"httpx.ConnectTimeout">>

\* C18 as stated: when the creation call fails with anything but a name
\* conflict, _init_container runs the close() teardown before the failure
\* reaches the caller.
C18_CreationFailureReleases ==
    ( /\ op = "connect"
      /\ Done
      /\ outcome = "raised"
      /\ h.create > 0
      /\ ~h.created ) =>
        h.closes > 0

(***************************************************************************)
(* Properties of the container specification (checked under SpecPorts).    *)
(***************************************************************************)
\* _init_container has assembled the arguments of containers.run.
Assembled == ppc \in {"running", "failed", "attached"}

\* The ports with an entry in port_mapping.
Published == { spec.ports[i] : i \in 1..Len(spec.ports) }

\* The ports _init_container allocated.
AllocatedPorts ==
    {allocated.host, allocated.vscode}
    \cup { allocated.app[i] : i \in 1..Len(allocated.app) }

\* C13: in host-network mode the port mapping assembled by _init_container
\* has no entry, whatever ports were allocated.
C13_HostModePublishesNothing ==
    (Assembled /\ pcfg.use_host_network) => spec.ports = <<>>

C13_Witness ==
    /\ Assembled
    /\ pcfg.use_host_network
    /\ spec.network_mode = "host"
    /\ Len(allocated.app) = 2
    /\ spec.ports = <<>>

\* C19 as stated: in bridge mode every allocated port has an entry in the
\* port mapping, also when editor support is disabled.
C19_EveryAllocatedPortBound ==
    (Assembled /\ ~pcfg.use_host_network) => AllocatedPorts \subseteq Published

\* C19 amended: in bridge mode the control port and each application port
\* have an entry in the port mapping; the editor port has one exactly when
\* editor support is enabled.
C19_BoundExceptDisabledEditor ==
    (Assembled /\ ~pcfg.use_host_network) =>
        Published = (AllocatedPorts \ {allocated.vscode})
                    \cup (IF pcfg.vscode_enabled THEN {allocated.vscode}
                          ELSE {})

C19_Witness ==
    /\ Assembled
    /\ ~pcfg.use_host_network
    /\ ~pcfg.vscode_enabled
    /\ Published = {allocated.host, allocated.app[1], allocated.app[2]}

\* C20 as stated: the 'port' and 'VSCODE_PORT' entries of the environment
\* passed to the container hold the allocated ports, whatever the caller
\* supplied as startup environment.
C20_ReservedKeysKeepAllocatedPorts ==
    Assembled =>
        /\ DictGet(spec.environment, "port") = Str(allocated.host)
        /\ DictGet(spec.environment, "VSCODE_PORT") = Str(allocated.vscode)

(***************************************************************************)
(* Properties of the port allocator (checked under SpecAllocator).         *)
(***************************************************************************)
\* C12: _find_available_port returns a port of the range; when a running
\* container publishes the returned port, max_attempts draws were made and
\* every one of them was rejected.
C12_PortInRangeAndBestEffort ==
    apc = "returned" =>
        /\ port_range[1] <= port
        /\ port <= port_range[2]
        /\ (port \in running_ports =>
              (drawn = max_attempts /\ rejected = max_attempts))

C12_Witness ==
    /\ apc = "returned"
    /\ max_attempts >= 2
    /\ port \in running_ports
    /\ rejected = max_attempts

(***************************************************************************)
(* Properties of delete (checked under SpecDelete).                        *)
(***************************************************************************)
DeletedName == CONTAINER_NAME_PREFIX \o deleted.id

\* C11: delete(id) does not raise when no container named prefix+id exists
\* or when the engine reports an API error on lookup or removal; when the
\* container exists and removal succeeds it is removed, running or not; and
\* no container of another name is removed.
C11_DeleteBestEffort ==
    deleted.id # << >> =>
        /\ (deleted.before[DeletedName] = "absent" \/ deleted.fault # "none")
              => deleted.raised = NoException
        /\ (deleted.before[DeletedName] # "absent" /\ deleted.fault = "none")
              => (engine[DeletedName] = "absent" /\ deleted.raised = NoException)
        /\ \A n \in DeleteNames \ {DeletedName} : engine[n] = deleted.before[n]

C11_Witness ==
    /\ deleted.id = << "a" >>
    /\ deleted.fault = "none"
    /\ deleted.before[DeletedName] = "running"
    /\ engine[DeletedName] = "absent"
    /\ deleted.raised = NoException
    /\ engine[ContainerName(<< "a", "b" >>)] = "running"

(***************************************************************************)
(* Properties of the shutdown hook (checked under SpecHook).               *)
(***************************************************************************)
\* C14: however many instances are constructed and however their
\* constructors interleave, add_shutdown_listener is called at most once.
C14_HookRegisteredOnce == listeners <= 1

(***************************************************************************)
(* Properties of the liveness loop, continued (checked under Spec).        *)
(***************************************************************************)
\* An attempt of _wait_until_alive (or no step at all): the loop is at the
\* start of an attempt and neither the engine's other users nor the
\* cancellation signal move.
WaitStep == pc = "wait" /\ envSteps' = envSteps /\ should_exit' = should_exit

\* C21: an attempt of _wait_until_alive that finds the container exited ends
\* the loop with AgentRuntimeDisconnectedError: the attempt issues no probe
\* and no further attempt is scheduled, whatever is left of the time budget
\* and whether or not cancellation was signalled.
C21_ExitedAbortsAtOnce ==
    [][(WaitStep /\ containers[container_name] = "exited") =>
          /\ pc' = "idle"
          /\ outcome' = "raised"
          /\ raised' = <<"AgentRuntimeDisconnectedError">>
          /\ ~h'.probed
          /\ h'.probes = h.probes
          /\ attempt_number' = attempt_number
          /\ elapsed' = elapsed]_vars

C21_Witness ==
    /\ op = "resume"
    /\ Raised("AgentRuntimeDisconnectedError")
    /\ h.lookups = 1
    /\ ~h.probed
    /\ containers[container_name] = "exited"
    /\ attempt_number = 0
    /\ elapsed < StopDelay
    /\ ~should_exit

(***************************************************************************)
(* Properties of the network resolution, continued (checked under Spec).   *)
(***************************************************************************)
\* C22 as stated: whenever the network resolution of _init_container ends
\* without a detection failure (host mode, engine variant with the native
\* alias, engine variant without it), the extra-hosts argument is defined,
\* the creation call is issued, and provisioning does not fail on an
\* undefined argument.
C22_CreationArgumentsDefined ==
    (op = "connect" /\ h.detect \in {"host", "desktop", "other"}) =>
        /\ h.extra_hosts # "unbound"
        /\ h.create > 0
        /\ ~Raised("UnboundLocalError")

(***************************************************************************)
(* Properties of the shared client (checked under SpecClient).             *)
(***************************************************************************)
\* C23 as stated: after delete() has returned, the cached engine client the
\* instances of the process hold is still open, however delete() interleaves
\* with the instances' constructors and operations.
C23_DeleteLeavesClientOpen ==
    (deleted.id # << >> /\ holders # {}) => client = "open"

====
